---- MODULE Spec2Model ----
(***************************************************************************)
(* Spectral Compressor: the STFT overlap-add driver (do_stft), the window  *)
(* processors of processBlock / processBlockBypassed, the double-buffered  *)
(* working set (ProcessData behind AtomicallySwappable) and the parameter  *)
(* listeners of SpectralCompressorProcessor.                               *)
(*                                                                         *)
(* Audio samples are modelled symbolically: a sample is the set of source  *)
(* tags it depends on.  The main input sample at host stream position p is *)
(* {p + 1}, the sidechain sample at p is {-(p + 1)}, silence is {}.  The   *)
(* window function and the forward/inverse transform pair are linear and   *)
(* pointwise when no bin is scaled, so an unscaled window keeps every      *)
(* sample's tag set; as soon as one bin is scaled, every sample of the     *)
(* window depends on every sample of the snapshot.                         *)
(***************************************************************************)
EXTENDS Integers, Sequences, FiniteSets, TLC

\* ---------------------------------------------------------------- bounds
\* The window order parameter ranges over 9..15 in the program; the model
\* scales the range down to MinOrder..MaxOrder (windows of 4, 8 and 16).
MinOrder == 2
MaxOrder == MinOrder + 2
DefaultOrder == MinOrder + 1
\* The overlap parameter ranges over 2..64 in the program (always below the
\* smallest window); the model keeps MinOverlap and scales the maximum.
MinOverlap == 2
MaxOverlap == 4
DefaultOverlap == 4
\* Channels of the main bus (and of the sidechain bus).
MaxChannels == 2
\* Host samples streamed in one behaviour, and the longest host block.
MaxSamples == 21
MaxBlock == 6
\* Host samples streamed while parameters change and rebuilds run.
MaxLiveSamples == 1
\* Host samples streamed while the host automates parameters.
MaxAutomationSamples == 8
\* The main bus as constructed: stereo.
DefaultChannels == 2

\* The two ratios the model distinguishes: 1.0 (no compression) and the
\* default.
RatioOff == 1
DefaultRatio == 50

Orders == MinOrder..MaxOrder
Overlaps == MinOverlap..MaxOverlap
Ratios == {RatioOff, DefaultRatio}

\* ---------------------------------------------------------------- helpers
RECURSIVE Pow2(_)
Pow2(n) == IF n = 0 THEN 1 ELSE 2 * Pow2(n - 1)

Min(a, b) == IF a < b THEN a ELSE b

\* std::ceil(static_cast<float>(a) / b) for the block sizes of the model
CeilDiv(a, b) == (a + b - 1) \div b

Silence == {}

\* F applied to v, with v evaluated once, before F is
Bind(v, F(_)) == CHOOSE y \in {F(x) : x \in {v}} : TRUE

SilentSeq(n) == [i \in 1..n |-> Silence]

\* ------------------------------------------------------------ RingBuffer
\* A ring is [buf, pos]: buf the backing store (slot k of the C++ buffer is
\* buf[k + 1]), pos the cursor in 0..capacity-1.
Capacity(r) == Len(r.buf)

Slot(r, k) == ((r.pos + k) % Capacity(r)) + 1

\* RingBuffer::resize: a fresh, zeroed store with the cursor at 0
RingResize(n) == [buf |-> SilentSeq(n), pos |-> 0]

\* RingBuffer::read_n_from (append): copy src into the store at the cursor,
\* wrapping, and advance the cursor
ReadNFrom(r, src) ==
  LET n == Len(src)
  IN  [buf |-> [j \in 1..Capacity(r) |->
                  IF \E k \in 0..(n - 1) : Slot(r, k) = j
                  THEN src[(CHOOSE k \in 0..(n - 1) : Slot(r, k) = j) + 1]
                  ELSE r.buf[j]],
       pos |-> (r.pos + n) % Capacity(r)]

\* RingBuffer::read_n_from_in_place: as read_n_from, the cursor left alone
ReadNFromInPlace(r, src) == [ReadNFrom(r, src) EXCEPT !.pos = r.pos]

\* RingBuffer::copy_last_n_to (snapshotLast): the n most recent samples,
\* oldest first; the ring is not changed
CopyLastNTo(r, n) ==
  [k \in 1..n |-> r.buf[((r.pos + Capacity(r) - n + (k - 1)) % Capacity(r)) + 1]]

\* RingBuffer::add_n_from_in_place (overlapAdd): add src into the n slots
\* starting at the cursor; the cursor moves by n modulo the capacity
AddNFromInPlace(r, src) ==
  LET n == Len(src)
  IN  [buf |-> [j \in 1..Capacity(r) |->
                  IF \E k \in 0..(n - 1) : Slot(r, k) = j
                  THEN r.buf[j] \cup src[(CHOOSE k \in 0..(n - 1) : Slot(r, k) = j) + 1]
                  ELSE r.buf[j]],
       pos |-> (r.pos + n) % Capacity(r)]

\* RingBuffer::copy_n_to (consume): the n samples at the cursor, which
\* advances; with clear the slots read are zeroed
CopyNToOut(r, n) == [k \in 1..n |-> r.buf[Slot(r, k - 1)]]

\* a consume that leaves the slots it read as they are
CopyNToKeep(r, n, clear) ==
  [buf |-> r.buf, pos |-> (r.pos + n) % Capacity(r)]

CopyNTo(r, n, clear) ==
  [buf |-> [j \in 1..Capacity(r) |->
              IF clear /\ \E k \in 0..(n - 1) : Slot(r, k) = j
              THEN Silence ELSE r.buf[j]],
   pos |-> (r.pos + n) % Capacity(r)]

\* ------------------------------------------------- the scaling of one bin
\* Bins whose parts are small integers and whose magnitude is an integer.
MaxPart == 4

\* The compressed magnitudes a compressor can answer with.
MaxMagnitude == 6

\* a quotient of floats, kept exact as numerator and denominator; with a
\* zero denominator it is an infinity or a NaN
Divide(a, b) == [num |-> a, den |-> b]

One == [num |-> 1, den |-> 1]

\* std::complex<float> values of fft_buffer[bin_idx]
BinValues ==
  {z \in [re : (-MaxPart)..MaxPart, im : (-MaxPart)..MaxPart] :
     \E m \in 0..(2 * MaxPart) : m * m = z.re * z.re + z.im * z.im}

\* std::abs(fft_buffer[bin_idx]); it is zero for the bin 0 + 0i only
Magnitude(z) ==
  CHOOSE m \in 0..(2 * MaxPart) : m * m = z.re * z.re + z.im * z.im

\* a multiplier computed without looking at the magnitude
CompressionMultiplierUnguarded(magnitude, compressed_magnitude) ==
  Divide(compressed_magnitude, magnitude)

\* compression_multiplier
CompressionMultiplier(magnitude, compressed_magnitude) ==
  IF magnitude # 0 THEN Divide(compressed_magnitude, magnitude) ELSE One

\* fft_buffer[bin_idx] *= compression_multiplier: both parts times the float
Scaled(z, m) ==
  [re |-> [num |-> z.re * m.num, den |-> m.den],
   im |-> [num |-> z.im * m.num, den |-> m.den]]

NoBin ==
  [stage |-> "none", z |-> [re |-> 0, im |-> 0], magnitude |-> 0,
   compressed_magnitude |-> 0, compression_multiplier |-> One,
   out |-> Scaled([re |-> 0, im |-> 0], One)]

\* ------------------------------------------------------------ variables
VARIABLES
  parameters,                  \* the plugin parameters (AudioProcessorValueTreeState)
  num_channels,                \* getMainBusNumInputChannels()
  latency,                     \* the value last given to setLatencySamples
  compressor_settings_changed, \* std::atomic_bool
  makeup_gain,                 \* member written by update_compressors
  update_pending,              \* process_data_updater has been triggered
  needs_swap,                  \* AtomicallySwappable: a built set is ready
  active,                      \* AtomicallySwappable: index of the active set
  ps,                          \* the two ProcessData objects, ps[1] and ps[2]
  playing,                     \* between prepareToPlay and releaseResources
  apc,                         \* audio thread: position in the callback
  au,                          \* audio thread: locals of the running callback
  main_io,                     \* host buffer, main bus, one sequence per channel
  sidechain_io,                \* host buffer, sidechain bus
  t_in,                        \* host samples streamed before this block
  stream_len,                  \* length of the host's stream
  fft_bin,                     \* one bin of the transformed scratch buffer
  notified,                    \* per working set: a compressor parameter changed
                               \* since update_compressors last ran on it
  bpc,                         \* background context: position
  bg,                          \* background context: locals
  changes                      \* parameter changes and state loads so far

vars == <<parameters, num_channels, latency, compressor_settings_changed,
          makeup_gain, update_pending, needs_swap, active, ps, playing, apc,
          au, main_io, sidechain_io, t_in, stream_len, fft_bin, notified, bpc, bg,
          changes>>

param_vars == <<parameters, num_channels, changes>>
host_vars == <<main_io, sidechain_io, t_in, stream_len, fft_bin>>
swap_vars == <<needs_swap, active>>
bg_vars == <<bpc, bg, update_pending, latency>>

\* ----------------------------------------------------------- ProcessData
\* juce::dsp::Compressor as default-constructed by vector::resize: ratio 1,
\* threshold 0 dB, no prepare() yet (no per-channel envelope state)
NoThreshold == [kind |-> "default", bin |-> 0, w |-> 0, sum |-> {}, div |-> 0]

\* (stepped counts the processSample calls the object has taken, per channel)
DefaultCompressor ==
  [ratio |-> RatioOff, attack |-> 0, release |-> 0, rate |-> <<0, 0>>,
   threshold |-> NoThreshold, env |-> <<>>,
   stepped |-> [c \in 1..MaxChannels |-> 0]]

\* ProcessData as default-constructed inside AtomicallySwappable, and as
\* left by the clear function of releaseResources
EmptyProcessData ==
  [fft_window_size |-> 0,
   num_windows_processed |-> 0,
   windowing_function |-> 0,
   fft |-> 0,
   fft_scratch_buffer |-> 0,
   spectral_compressors |-> <<>>,
   spectral_compressor_sidechain_thresholds |-> <<>>,
   input_ring_buffers |-> <<>>,
   output_ring_buffers |-> <<>>,
   sidechain_ring_buffers |-> <<>>,
   log |-> <<>>,
   \* the bins of the scratch buffer the last compressed window multiplied
   scaled_bins |-> {},
   \* update_compressors has run on the object since its compressors were
   \* last resized
   configured |-> FALSE,
   \* do_stft has copied output ring samples to the host from the object
   \* since it was last built
   emitted |-> FALSE]

\* std::vector::resize: the first n elements are kept, new ones are
\* value-initialised
VectorResize(v, n, fresh) == [i \in 1..n |-> IF i <= Len(v) THEN v[i] ELSE fresh]

\* update_and_swap_process_data, the modify function, first half: the window
\* size from fft_order, the window counter, the windowing table
BuildBegin(pd, order) ==
  [pd EXCEPT !.fft_window_size = Pow2(order),
             !.num_windows_processed = 0,
             !.windowing_function = Pow2(order),
             !.log = <<>>,
             !.scaled_bins = {},
             !.emitted = FALSE]

\* ... second half: the transform plan (fft_order read again), the scratch
\* buffer, the compressors, the accumulators and the three sets of rings
BuildResize(pd, order, nch) ==
  [pd EXCEPT !.fft = order,
             !.configured = FALSE,
             !.fft_scratch_buffer = pd.fft_window_size * 2,
             !.spectral_compressors =
                VectorResize(pd.spectral_compressors, pd.fft_window_size \div 2,
                             DefaultCompressor),
             !.spectral_compressor_sidechain_thresholds =
                VectorResize(pd.spectral_compressor_sidechain_thresholds,
                             pd.fft_window_size \div 2, {}),
             !.input_ring_buffers = [c \in 1..nch |-> RingResize(pd.fft_window_size)],
             !.output_ring_buffers = [c \in 1..nch |-> RingResize(pd.fft_window_size)],
             !.sidechain_ring_buffers = [c \in 1..nch |-> RingResize(pd.fft_window_size)]]

\* the whole modify function, when nothing interleaves with it
BuildProcessData(pd, order, nch) == BuildResize(BuildBegin(pd, order), order, nch)

\* ----------------------------------------------------- update_compressors
StaticThreshold(pd, idx) ==
  [kind |-> "static", bin |-> idx + 1, w |-> pd.fft_window_size, sum |-> {}, div |-> 0]

\* the effective sample rate getSampleRate() / (fft_window_size / overlap),
\* kept as the pair <<overlap, fft_window_size>>
EffectiveSampleRate(pd, par) == <<par.windowing_overlap_times, pd.fft_window_size>>

UpdateCompressors(pd, par, nch) ==
  [pd EXCEPT !.configured = TRUE,
             !.spectral_compressors =
     [i \in 1..Len(pd.spectral_compressors) |->
        [ratio |-> par.compressor_ratio,
         attack |-> par.compressor_attack_ms,
         release |-> par.compressor_release_ms,
         rate |-> EffectiveSampleRate(pd, par),
         \* Compressor::prepare resets the envelope followers
         env |-> [c \in 1..nch |-> 0],
         stepped |-> pd.spectral_compressors[i].stepped,
         threshold |-> IF par.sidechain_active
                       THEN pd.spectral_compressors[i].threshold
                       ELSE StaticThreshold(pd, i - 1)]]]

MakeupGain(par) ==
  [set |-> TRUE,
   overlap |-> par.windowing_overlap_times,
   auto |-> IF ~par.auto_makeup_gain THEN "off"
            ELSE IF par.sidechain_active THEN "sidechain" ELSE "static",
   ratio |-> IF par.auto_makeup_gain THEN par.compressor_ratio ELSE 0]

\* -------------------------------------------------- the window processors
\* what a transform of the samples q depends on: every sample of q
Tags(q) == Bind(q, LAMBDA w : UNION {w[k] : k \in 1..Len(w)})

\* the magnitudes of the bins 1..size/2 of the transform of channel ch's
\* sidechain window, whose samples carry `src`
SidechainMagnitudes(pd, ch) ==
  Bind(Tags(CopyLastNTo(pd.sidechain_ring_buffers[ch], pd.fft_window_size)),
       LAMBDA src : [i \in 1..Len(pd.spectral_compressors) |->
                       [ch |-> ch, bin |-> i, src |-> src]])

\* a sidechain part that sets the accumulated sum itself as the threshold
SidechainSums(pd, input_channels) ==
  [pd EXCEPT
     !.spectral_compressors =
        [i \in 1..Len(pd.spectral_compressors) |->
           [pd.spectral_compressors[i] EXCEPT
              !.threshold = [kind |-> "sidechain", bin |-> i, w |-> pd.fft_window_size,
                             sum |-> pd.spectral_compressor_sidechain_thresholds[i] \cup
                                       {SidechainMagnitudes(pd, c)[i] : c \in 1..input_channels},
                             div |-> 1]]],
     !.spectral_compressor_sidechain_thresholds =
        [i \in 1..Len(pd.spectral_compressors) |-> {}]]

\* a sidechain part that leaves the accumulated sums in the accumulator
SidechainThresholdsKept(pd, input_channels) ==
  Bind([i \in 1..Len(pd.spectral_compressors) |->
          pd.spectral_compressor_sidechain_thresholds[i] \cup
            {SidechainMagnitudes(pd, c)[i] : c \in 1..input_channels}],
       LAMBDA acc :
      [pd EXCEPT
         !.spectral_compressors =
            [i \in 1..Len(pd.spectral_compressors) |->
               [pd.spectral_compressors[i] EXCEPT
                  !.threshold = [kind |-> "sidechain", bin |-> i, w |-> pd.fft_window_size,
                                 sum |-> acc[i], div |-> input_channels]]],
         !.spectral_compressor_sidechain_thresholds = acc])

\* processBlock's lambda, the sidechain part: every channel's magnitudes are
\* accumulated per bin, the mean becomes the threshold, the accumulator is
\* zeroed again
SidechainThresholds(pd, input_channels) ==
  Bind([c \in 1..input_channels |-> SidechainMagnitudes(pd, c)],
       LAMBDA magnitude :
  Bind([i \in 1..Len(pd.spectral_compressors) |->
          pd.spectral_compressor_sidechain_thresholds[i] \cup
            {magnitude[c][i] : c \in 1..input_channels}],
       LAMBDA acc :
      [pd EXCEPT
         !.spectral_compressors =
            [i \in 1..Len(pd.spectral_compressors) |->
               [pd.spectral_compressors[i] EXCEPT
                  !.threshold = [kind |-> "sidechain", bin |-> i, w |-> pd.fft_window_size,
                                 sum |-> acc[i], div |-> input_channels]]],
         !.spectral_compressor_sidechain_thresholds =
            [i \in 1..Len(pd.spectral_compressors) |-> {}]]))

\* every bin's multiplier is 1: no compressor of the set has a ratio above 1
Unscaled(pd) ==
  \A i \in 1..Len(pd.spectral_compressors) : pd.spectral_compressors[i].ratio = RatioOff

\* the processed window of one channel: snapshot, window table, forward
\* transform, per-bin scaling, inverse transform, window table
ProcessedWindow(pd, ch) ==
  Bind(CopyLastNTo(pd.input_ring_buffers[ch], pd.fft_window_size),
       LAMBDA snapshot :
         IF Unscaled(pd) THEN snapshot
         ELSE Bind(Tags(snapshot), LAMBDA all : [k \in 1..pd.fft_window_size |-> all]))

\* a window processor that steps the compressors for the first channel only
ProcessSampleFirstChannel(comp, input_channels) ==
  [comp EXCEPT !.env = [c \in 1..Len(comp.env) |->
                          IF c <= 1 THEN comp.env[c] + 1 ELSE comp.env[c]],
               !.stepped = [c \in 1..MaxChannels |->
                              IF c <= 1 THEN comp.stepped[c] + 1 ELSE comp.stepped[c]]]

\* a compression loop that starts at the DC bin
BinsFromDC(pd) ==
  {compressor_idx : compressor_idx \in 0..(Len(pd.spectral_compressors) - 1)}

\* the bins the compression loop multiplies: bin_idx = compressor_idx + 1
\* for every compressor of the working set
CompressedBins(pd) ==
  {compressor_idx + 1 : compressor_idx \in 0..(Len(pd.spectral_compressors) - 1)}

\* Compressor::processSample(channel, magnitude): one step of the envelope
\* follower of that channel (none exists before prepare())
ProcessSample(comp, input_channels) ==
  [comp EXCEPT !.env = [c \in 1..Len(comp.env) |->
                          IF c <= input_channels THEN comp.env[c] + 1 ELSE comp.env[c]],
               !.stepped = [c \in 1..MaxChannels |->
                              IF c <= input_channels THEN comp.stepped[c] + 1
                              ELSE comp.stepped[c]]]

\* processBlock's lambda (process_fn of the compressing path)
CompressWindow(pd, sidechain_active, input_channels) ==
  Bind(IF sidechain_active THEN SidechainThresholds(pd, input_channels) ELSE pd,
       LAMBDA pd1 :
      [pd1 EXCEPT
         !.spectral_compressors =
            [i \in 1..Len(pd1.spectral_compressors) |->
               ProcessSample(pd1.spectral_compressors[i], input_channels)],
         !.output_ring_buffers =
            [c \in 1..Len(pd1.output_ring_buffers) |->
               IF c <= input_channels
               THEN Bind(ProcessedWindow(pd1, c),
                         LAMBDA window : AddNFromInPlace(pd1.output_ring_buffers[c], window))
               ELSE pd1.output_ring_buffers[c]],
         !.log = Append(pd1.log, CopyLastNTo(pd1.input_ring_buffers[1], pd1.fft_window_size)),
         !.scaled_bins = CompressedBins(pd1)])

\* processBlockBypassed's lambda: the last windowing_interval input samples
\* are written into the output ring at its cursor
BypassWindow(pd, overlap, input_channels) ==
  LET interval == pd.fft_window_size \div overlap
  IN  [pd EXCEPT
         !.output_ring_buffers =
            [c \in 1..Len(pd.output_ring_buffers) |->
               IF c <= input_channels
               THEN Bind(CopyLastNTo(pd.input_ring_buffers[c], interval),
                         LAMBDA scratch : ReadNFromInPlace(pd.output_ring_buffers[c], scratch))
               ELSE pd.output_ring_buffers[c]],
         !.log = Append(pd.log, CopyLastNTo(pd.input_ring_buffers[1], pd.fft_window_size))]

\* ---------------------------------------------------------------- do_stft
\* a hop of overlap windows instead of a fraction of one
WindowingIntervalTimes(pd, par) == pd.fft_window_size * par.windowing_overlap_times

\* windowing_interval, as do_stft and the bypass lambda compute it
WindowingInterval(pd, par) == pd.fft_window_size \div par.windowing_overlap_times

AlreadyProcessedSamples(pd, interval, num_samples) ==
  Min(num_samples,
      (interval - (pd.input_ring_buffers[1].pos % interval)) % interval)

\* a count that forgets the samples the prefix has handled
WindowsOfBlock(num_samples, already, interval) == num_samples \div interval

\* a count of the completed hops only
WindowsCompleted(num_samples, already, interval) ==
  (num_samples - already) \div interval

WindowsToProcess(num_samples, already, interval) ==
  CeilDiv(num_samples - already, interval)

\* a gate that is open from the first window on
GateAlwaysOpen(pd, par) == TRUE

\* the gate of the output copy: ring output or forced silence
OutputGate(pd, par) == pd.num_windows_processed >= par.windowing_overlap_times

\* the host buffer after the output copy of do_stft over [off, off + cnt):
\* ring output or silence in the range, the rest as it was
CopyHost(pd, io, off, cnt, gate) ==
  [c \in 1..Len(io) |->
     [k \in 1..Len(io[c]) |->
        IF off < k /\ k <= off + cnt
        THEN (IF gate THEN CopyNToOut(pd.output_ring_buffers[c], cnt)[k - off]
              ELSE Silence)
        ELSE io[c][k]]]

\* a copy that appends to the input ring after the host range has been
\* overwritten with the output
CopyRingsAfterOutput(pd, io, sio, off, cnt, gate, sidechain_active) ==
  [input_ring_buffers |->
     [c \in 1..Len(pd.input_ring_buffers) |->
        ReadNFrom(pd.input_ring_buffers[c],
                  SubSeq(CopyHost(pd, io, off, cnt, gate)[c], off + 1, off + cnt))],
   output_ring_buffers |->
     [c \in 1..Len(pd.output_ring_buffers) |->
        IF gate THEN CopyNTo(pd.output_ring_buffers[c], cnt, TRUE)
        ELSE pd.output_ring_buffers[c]],
   sidechain_ring_buffers |->
     [c \in 1..Len(pd.sidechain_ring_buffers) |->
        IF sidechain_active
        THEN ReadNFrom(pd.sidechain_ring_buffers[c], SubSeq(sio[c], off + 1, off + cnt))
        ELSE pd.sidechain_ring_buffers[c]]]

\* a copy whose sidechain append always reads the host buffer from its start
CopyRingsUnlocked(pd, io, sio, off, cnt, gate, sidechain_active) ==
  [input_ring_buffers |->
     [c \in 1..Len(pd.input_ring_buffers) |->
        ReadNFrom(pd.input_ring_buffers[c], SubSeq(io[c], off + 1, off + cnt))],
   output_ring_buffers |->
     [c \in 1..Len(pd.output_ring_buffers) |->
        IF gate THEN CopyNTo(pd.output_ring_buffers[c], cnt, TRUE)
        ELSE pd.output_ring_buffers[c]],
   sidechain_ring_buffers |->
     [c \in 1..Len(pd.sidechain_ring_buffers) |->
        IF sidechain_active
        THEN ReadNFrom(pd.sidechain_ring_buffers[c], SubSeq(sio[c], 1, cnt))
        ELSE pd.sidechain_ring_buffers[c]]]

\* one synchronized copy of do_stft over the host range [off, off + cnt):
\* input ring append, output ring consume (or silence), sidechain append.
\* The result is the working set and the main host buffer afterwards.
CopyRings(pd, io, sio, off, cnt, gate, sidechain_active) ==
  [input_ring_buffers |->
     [c \in 1..Len(pd.input_ring_buffers) |->
        ReadNFrom(pd.input_ring_buffers[c], SubSeq(io[c], off + 1, off + cnt))],
   output_ring_buffers |->
     [c \in 1..Len(pd.output_ring_buffers) |->
        IF gate THEN CopyNTo(pd.output_ring_buffers[c], cnt, TRUE)
        ELSE pd.output_ring_buffers[c]],
   sidechain_ring_buffers |->
     [c \in 1..Len(pd.sidechain_ring_buffers) |->
        IF sidechain_active
        THEN ReadNFrom(pd.sidechain_ring_buffers[c], SubSeq(sio[c], off + 1, off + cnt))
        ELSE pd.sidechain_ring_buffers[c]]]

WithRings(pd, rings) ==
  [pd EXCEPT !.input_ring_buffers = rings.input_ring_buffers,
             !.output_ring_buffers = rings.output_ring_buffers,
             !.sidechain_ring_buffers = rings.sidechain_ring_buffers]

\* the copy of do_stft has been through its gate: with the gate open, output
\* ring samples have gone to the host
Emitting(pd, gate) == [pd EXCEPT !.emitted = @ \/ gate]

\* ------------------------------------------------------------ the host
HostMain(n) == [c \in 1..num_channels |-> [k \in 1..n |-> {t_in + k}]]

HostSidechain(n) == [c \in 1..num_channels |-> [k \in 1..n |-> {-(t_in + k)}]]

NoBuffer == <<>>

IdleAu ==
  [cur |-> 0, bypassed |-> FALSE, num_samples |-> 0, sample_buffer_offset |-> 0,
   windowing_interval |-> 0, windows_to_process |-> 0, window_idx |-> 0,
   \* bookkeeping of the callback, for the properties: the working sets its
   \* steps touched, whether it ran update_compressors, whether its get()
   \* swapped, the window size of the set it retired, the latency reported
   \* when it started, whether a compressor parameter changed while it ran,
   \* the compare-and-swaps on compressor_settings_changed it executed
   used |-> {}, updated |-> FALSE, swapped |-> FALSE, retired_size |-> 0,
   entry_latency |-> 0, late |-> FALSE, checks |-> 0]

\* ------------------------------------------------- AtomicallySwappable
\* a get() that waits while a rebuild is writing
GetWaitsForBuild == bpc \notin {"resize", "publish"}

\* get() takes no lock and waits for nothing
GetReady == TRUE

\* get(): swap the two objects if a built one is ready, return the active one
ActiveAfterGet == IF needs_swap THEN 3 - active ELSE active

Get ==
  /\ active' = ActiveAfterGet
  /\ needs_swap' = FALSE

\* the object modify_and_swap hands to its modify function
Inactive == 3 - active

\* ------------------------------------------------------ the audio thread
\* the reference a callback binds from process_data.get() and hands to
\* do_stft and to update_compressors
HeldReference(got) == got

\* the working set a get() in the middle of the call would return
RefetchedData == ActiveAfterGet

\* the working set a step of do_stft works on
StftData == au.cur

EnterCallback(n, bypassed) ==
  /\ apc = "idle"
  /\ playing
  /\ t_in + n <= stream_len
  /\ GetReady
  /\ Get
  /\ au' = [IdleAu EXCEPT !.cur = HeldReference(active'), !.bypassed = bypassed,
                          !.num_samples = n,
                          !.swapped = needs_swap,
                          !.retired_size = ps[active].fft_window_size,
                          !.entry_latency = latency]
  /\ main_io' = HostMain(n)
  /\ sidechain_io' = HostSidechain(n)
  /\ UNCHANGED <<param_vars, bg_vars, compressor_settings_changed, notified,
                 makeup_gain, ps, playing, t_in, stream_len, fft_bin>>

\* processBlockBypassed: get(), then do_stft with the bypass lambda
ProcessBlockBypassed(n) ==
  /\ EnterCallback(n, TRUE)
  /\ apc' = "stft"

\* processBlock: get() ...
ProcessBlock(n) ==
  /\ EnterCallback(n, FALSE)
  /\ apc' = "cas"

\* ... then the compare-and-swap on compressor_settings_changed, and
\* update_compressors on the held working set when it was set
CompareExchange ==
  /\ apc = "cas"
  /\ IF compressor_settings_changed
     THEN /\ compressor_settings_changed' = FALSE
          /\ ps' = [ps EXCEPT ![au.cur] = UpdateCompressors(@, parameters, num_channels)]
          /\ makeup_gain' = MakeupGain(parameters)
          /\ au' = [au EXCEPT !.used = @ \cup {au.cur}, !.updated = TRUE,
                              !.checks = @ + 1]
          /\ notified' = [notified EXCEPT ![au.cur] = FALSE]
     ELSE /\ au' = [au EXCEPT !.checks = @ + 1]
          /\ UNCHANGED <<compressor_settings_changed, ps, makeup_gain, notified>>
  /\ apc' = "stft"
  /\ UNCHANGED <<param_vars, bg_vars, swap_vars, host_vars, playing>>

\* do_stft up to the loop, on the working set pd and the host buffers io
\* and sio of num_samples samples: the locals, and the copy of the samples
\* that complete the hop a former block began
StftPrefix(pd, par, io, sio, num_samples) ==
  LET interval == WindowingInterval(pd, par)
      already == AlreadyProcessedSamples(pd, interval, num_samples)
      gate == OutputGate(pd, par)
  IN  [windowing_interval |-> interval,
       windows_to_process |-> WindowsToProcess(num_samples, already, interval),
       sample_buffer_offset |-> already,
       pd |-> IF already > 0
              THEN Emitting(WithRings(pd, CopyRings(pd, io, sio, 0, already, gate,
                                                    par.sidechain_active)), gate)
              ELSE pd,
       io |-> IF already > 0 THEN CopyHost(pd, io, 0, already, gate) ELSE io]

\* one iteration of do_stft's loop: process_fn, the window counter, the copy
\* of (at most) one hop of samples
StftIteration(pd0, par, nch, bypassed, io, sio, num_samples, interval, off) ==
  Bind(IF bypassed
       THEN BypassWindow(pd0, par.windowing_overlap_times, nch)
       ELSE CompressWindow(pd0, par.sidechain_active, nch),
       LAMBDA pd1 :
  Bind([pd1 EXCEPT !.num_windows_processed = @ + 1],
       LAMBDA pd :
  LET cnt == Min(interval, num_samples - off)
      gate == OutputGate(pd, par)
  IN  [sample_buffer_offset |-> off + cnt,
       pd |-> Bind(CopyRings(pd, io, sio, off, cnt, gate, par.sidechain_active),
                   LAMBDA rings : Emitting(WithRings(pd, rings), gate)),
       io |-> CopyHost(pd, io, off, cnt, gate)]))

StftBegin ==
  /\ apc = "stft"
  /\ \E d \in {StftData} :
     \E r \in {StftPrefix(ps[d], parameters, main_io, sidechain_io, au.num_samples)} :
         /\ au' = [au EXCEPT !.windowing_interval = r.windowing_interval,
                             !.windows_to_process = r.windows_to_process,
                             !.sample_buffer_offset = r.sample_buffer_offset,
                             !.used = @ \cup {d}]
         /\ ps' = [ps EXCEPT ![d] = r.pd]
         /\ main_io' = r.io
         /\ apc' = IF r.windows_to_process > 0 THEN "loop" ELSE "end"
  /\ UNCHANGED <<param_vars, bg_vars, swap_vars, sidechain_io, t_in, stream_len, fft_bin,
                 playing, compressor_settings_changed, makeup_gain, notified>>

StftWindow ==
  /\ apc = "loop"
  /\ \E d \in {StftData} :
     \E r \in {StftIteration(ps[d], parameters, num_channels, au.bypassed, main_io,
                             sidechain_io, au.num_samples, au.windowing_interval,
                             au.sample_buffer_offset)} :
         /\ ps' = [ps EXCEPT ![d] = r.pd]
         /\ main_io' = r.io
         /\ au' = [au EXCEPT !.sample_buffer_offset = r.sample_buffer_offset,
                             !.window_idx = @ + 1,
                             !.used = @ \cup {d}]
         /\ apc' = IF au.window_idx + 1 < au.windows_to_process THEN "loop" ELSE "end"
  /\ UNCHANGED <<param_vars, bg_vars, swap_vars, sidechain_io, t_in, stream_len, fft_bin,
                 playing, compressor_settings_changed, makeup_gain, notified>>

\* the step being taken is a step of do_stft: the prefix, or one iteration
\* of the loop
StftStep ==
  \/ apc = "stft" /\ apc' # "stft"
  \/ apc = "loop" /\ au'.window_idx = au.window_idx + 1

\* the callback returns: the host takes the block
Return ==
  /\ apc = "end"
  /\ apc' = "idle"
  /\ t_in' = t_in + au.num_samples
  /\ au' = IdleAu
  /\ main_io' = NoBuffer
  /\ sidechain_io' = NoBuffer
  /\ UNCHANGED <<param_vars, bg_vars, swap_vars, ps, playing, stream_len, fft_bin,
                 compressor_settings_changed, makeup_gain, notified>>

\* ------------------------------------------------------------ parameters
\* Parameter changes and state loads in one behaviour.
MaxChanges == 2

DefaultParameters ==
  [fft_order |-> DefaultOrder,
   windowing_overlap_times |-> DefaultOverlap,
   sidechain_active |-> FALSE,
   compressor_ratio |-> DefaultRatio,
   compressor_attack_ms |-> 50,
   compressor_release_ms |-> 5000,
   auto_makeup_gain |-> TRUE]

\* the values a compressor-related parameter can be given
CompressorParamValues ==
  [sidechain_active |-> BOOLEAN,
   compressor_ratio |-> Ratios,
   compressor_attack_ms |-> {0, 50},
   compressor_release_ms |-> {0, 5000},
   auto_makeup_gain |-> BOOLEAN,
   windowing_overlap_times |-> Overlaps]

\* a listener that leaves the flag as it was
ListenerSilent(flag) == flag

\* compressor_settings_listener: compressor_settings_changed = true
CompressorSettingsListener(flag) == TRUE

\* a parameter the compressor_settings_listener is registered for changes
\* (the six compressor-related parameters, the overlap factor among them)
CompressorParamChanged(name, v) ==
  /\ changes < MaxChanges
  /\ v # parameters[name]
  /\ parameters' = [parameters EXCEPT ![name] = v]
  /\ compressor_settings_changed' = CompressorSettingsListener(compressor_settings_changed)
  /\ changes' = changes + 1
  /\ notified' = [i \in 1..2 |-> TRUE]
  /\ au' = IF apc = "idle" THEN au ELSE [au EXCEPT !.late = TRUE]
  /\ UNCHANGED <<num_channels, bg_vars, swap_vars, host_vars, ps, playing, apc,
                 makeup_gain>>

\* a listener that triggers nothing
ListenerUnregistered(pending) == pending

\* fft_order_listener: process_data_updater.triggerAsyncUpdate()
FftOrderListener(pending) == TRUE

\* the window order parameter changes
FftOrderChanged(o) ==
  /\ changes < MaxChanges
  /\ o # parameters.fft_order
  /\ parameters' = [parameters EXCEPT !.fft_order = o]
  /\ update_pending' = FftOrderListener(update_pending)
  /\ changes' = changes + 1
  /\ UNCHANGED <<notified, num_channels, bpc, bg, latency, swap_vars, host_vars, ps, playing,
                 apc, au, compressor_settings_changed, makeup_gain>>

\* ------------------------------------------------ the background context
IdleBg == [caller |-> "none", target |-> 0]

\* process_data_updater's callback starts: the pending trigger is taken
UpdaterRun ==
  /\ bpc = "idle"
  /\ update_pending
  /\ update_pending' = FALSE
  /\ bpc' = "begin"
  /\ bg' = [IdleBg EXCEPT !.caller = "updater"]
  /\ UNCHANGED <<notified, param_vars, latency, swap_vars, host_vars, ps, playing, apc, au,
                 compressor_settings_changed, makeup_gain>>

\* setStateInformation: the loaded state replaces the parameters (here a
\* state that differs from the current one in the window order at most; the
\* listener is notified when the order changes), then the rebuild
SetStateInformation(o) ==
  /\ bpc = "idle"
  /\ changes < MaxChanges
  /\ parameters' = [parameters EXCEPT !.fft_order = o]
  /\ update_pending' = IF o # parameters.fft_order
                        THEN FftOrderListener(update_pending) ELSE update_pending
  /\ changes' = changes + 1
  /\ bpc' = "begin"
  /\ bg' = [IdleBg EXCEPT !.caller = "state"]
  /\ UNCHANGED <<notified, num_channels, latency, swap_vars, host_vars, ps, playing, apc, au,
                 compressor_settings_changed, makeup_gain>>

\* a modify function that wrote the other object
OtherObject(given) == 3 - given

\* the object the modify function of update_and_swap_process_data writes:
\* its parameter process_data, the object modify_and_swap hands it
ModifiedObject(given) == given

\* modify_and_swap begins, and the modify function's first statements
BuildBeginStep ==
  /\ bpc = "begin"
  /\ needs_swap' = FALSE
  /\ bg' = [bg EXCEPT !.target = ModifiedObject(Inactive)]
  /\ ps' = [ps EXCEPT ![ModifiedObject(Inactive)] = BuildBegin(@, parameters.fft_order)]
  /\ bpc' = "resize"
  /\ UNCHANGED <<notified, param_vars, update_pending, latency, active, host_vars, playing, apc,
                 au, compressor_settings_changed, makeup_gain>>

\* a rebuild that withdraws the signal
SettingsUnchangedAfterBuild == FALSE

\* the last statement of the modify function: compressor_settings_changed =
\* true
SettingsChangedAfterBuild == TRUE

\* the rest of the modify function, compressor_settings_changed included
BuildResizeStep ==
  /\ bpc = "resize"
  /\ ps' = [ps EXCEPT ![bg.target] = BuildResize(@, parameters.fft_order, num_channels)]
  /\ compressor_settings_changed' = SettingsChangedAfterBuild
  /\ bpc' = "publish"
  /\ UNCHANGED <<notified, param_vars, update_pending, latency, bg, swap_vars, host_vars, playing,
                 apc, au, makeup_gain>>

\* modify_and_swap ends: the built object is ready for the next get()
Publish ==
  /\ bpc = "publish"
  /\ needs_swap' = TRUE
  /\ bpc' = "latency"
  /\ bg' = [bg EXCEPT !.target = 0]
  /\ UNCHANGED <<notified, param_vars, update_pending, latency, active, host_vars, ps, playing,
                 apc, au, compressor_settings_changed, makeup_gain>>

\* the window size the constructor reported
ConstructedWindowSize == Pow2(DefaultOrder)

\* the window size the callers of update_and_swap_process_data report
NewWindowSize == Pow2(parameters.fft_order)

\* setLatencySamples(1 << fft_order), in the updater and in
\* setStateInformation
ReportLatency ==
  /\ bpc = "latency"
  /\ latency' = NewWindowSize
  /\ bpc' = "idle"
  /\ bg' = IdleBg
  /\ UNCHANGED <<notified, param_vars, update_pending, swap_vars, host_vars, ps, playing, apc, au,
                 compressor_settings_changed, makeup_gain>>

\* -------------------------------------------------------------- lifecycle
\* a prepareToPlay that leaves the built object waiting for its swap
NoGetAfterBuild ==
  /\ active' = active
  /\ needs_swap' = TRUE

\* prepareToPlay's explicit process_data.get() after the build: the object
\* just built and published is swapped in
GetAfterBuild ==
  /\ active' = Inactive
  /\ needs_swap' = FALSE

\* prepareToPlay: update_and_swap_process_data, then get(); the audio thread
\* is not running
PrepareToPlay ==
  /\ ~playing
  /\ bpc = "idle"
  /\ ps' = [ps EXCEPT ![ModifiedObject(Inactive)] =
              BuildProcessData(@, parameters.fft_order, num_channels)]
  /\ compressor_settings_changed' = SettingsChangedAfterBuild
  /\ GetAfterBuild
  /\ playing' = TRUE
  /\ UNCHANGED <<notified, param_vars, bg_vars, host_vars, apc, au, makeup_gain>>

\* a clear function that forgets the ring buffers
ClearButRings(pd) ==
  [pd EXCEPT !.windowing_function = 0,
             !.fft = 0,
             !.fft_scratch_buffer = 0,
             !.spectral_compressors = <<>>,
             !.spectral_compressor_sidechain_thresholds = <<>>]

\* the clear function releaseResources gives to process_data.clear
ClearProcessData(pd) ==
  [pd EXCEPT !.windowing_function = 0,
             !.fft = 0,
             !.fft_scratch_buffer = 0,
             !.spectral_compressors = <<>>,
             !.spectral_compressor_sidechain_thresholds = <<>>,
             !.input_ring_buffers = <<>>,
             !.output_ring_buffers = <<>>,
             !.sidechain_ring_buffers = <<>>]

\* releaseResources: both objects are cleared; the audio thread is not
\* running
ReleaseResources ==
  /\ playing
  /\ apc = "idle"
  /\ bpc = "idle"
  /\ changes < MaxChanges
  /\ changes' = changes + 1
  /\ ps' = [i \in 1..2 |-> ClearProcessData(ps[i])]
  /\ playing' = FALSE
  /\ UNCHANGED <<notified, parameters, num_channels, bg_vars, swap_vars, host_vars, apc, au,
                 compressor_settings_changed, makeup_gain>>

\* ---------------------------------------------------------- specifications
NoMakeupGain == [set |-> FALSE, overlap |-> 0, auto |-> "off", ratio |-> 0]

\* the processor as constructed
Init ==
  /\ parameters = DefaultParameters
  /\ num_channels = DefaultChannels
  /\ latency = Pow2(DefaultOrder)
  /\ compressor_settings_changed = TRUE
  /\ makeup_gain = NoMakeupGain
  /\ update_pending = FALSE
  /\ needs_swap = FALSE
  /\ active = 1
  /\ ps = [i \in 1..2 |-> EmptyProcessData]
  /\ playing = FALSE
  /\ apc = "idle"
  /\ au = IdleAu
  /\ main_io = NoBuffer
  /\ sidechain_io = NoBuffer
  /\ t_in = 0
  /\ notified = [i \in 1..2 |-> FALSE]
  /\ stream_len = MaxLiveSamples
  /\ fft_bin = NoBin
  /\ bpc = "idle"
  /\ bg = IdleBg
  /\ changes = 0

AudioNext ==
  \/ \E n \in 0..MaxBlock : ProcessBlock(n)
  \/ \E n \in 0..MaxBlock : ProcessBlockBypassed(n)
  \/ CompareExchange
  \/ StftBegin
  \/ StftWindow
  \/ Return

BackgroundNext ==
  \/ UpdaterRun
  \/ \E o \in Orders : SetStateInformation(o)
  \/ BuildBeginStep
  \/ BuildResizeStep
  \/ Publish
  \/ ReportLatency

ParameterNext ==
  \/ \E name \in DOMAIN CompressorParamValues :
       \E v \in CompressorParamValues[name] : CompressorParamChanged(name, v)
  \/ \E o \in Orders : FftOrderChanged(o)

Next ==
  \/ AudioNext
  \/ BackgroundNext
  \/ ParameterNext
  \/ PrepareToPlay
  \/ ReleaseResources

Spec == Init /\ [][Next]_vars

\* A stream on a freshly activated working set with fixed parameters: the
\* state after a state load with these parameters and prepareToPlay.
StreamInit ==
  /\ parameters \in [fft_order : Orders,
                     windowing_overlap_times : Overlaps,
                     sidechain_active : BOOLEAN,
                     compressor_ratio : Ratios,
                     compressor_attack_ms : {50},
                     compressor_release_ms : {5000},
                     auto_makeup_gain : {TRUE}]
  /\ num_channels \in 1..MaxChannels
  /\ latency = Pow2(parameters.fft_order)
  /\ compressor_settings_changed = TRUE
  /\ makeup_gain = NoMakeupGain
  /\ update_pending = FALSE
  /\ needs_swap = FALSE
  /\ active = 2
  /\ ps = [i \in 1..2 |->
             IF i = 2
             THEN BuildProcessData(EmptyProcessData, parameters.fft_order, num_channels)
             ELSE EmptyProcessData]
  /\ playing = TRUE
  /\ apc = "idle"
  /\ au = IdleAu
  /\ main_io = NoBuffer
  /\ sidechain_io = NoBuffer
  /\ t_in = 0
  /\ notified = [i \in 1..2 |-> FALSE]
  /\ stream_len = MaxSamples
  /\ fft_bin = NoBin
  /\ bpc = "idle"
  /\ bg = IdleBg
  /\ changes = MaxChanges

StreamNext ==
  \/ \E n \in 0..MaxBlock : ProcessBlock(n)
  \/ CompareExchange
  \/ StftBegin
  \/ StftWindow
  \/ Return

SpecStream == StreamInit /\ [][StreamNext]_vars

BypassNext ==
  \/ \E n \in 0..MaxBlock : ProcessBlockBypassed(n)
  \/ StftBegin
  \/ StftWindow
  \/ Return

SpecBypass == StreamInit /\ [][BypassNext]_vars

\* A stream on a freshly activated working set of the smallest window size
\* while the host automates parameters: sidechaining and the overlap factor
\* change between and during the blocks.
AutomationInit ==
  /\ parameters \in [fft_order : {MinOrder},
                     windowing_overlap_times : Overlaps,
                     sidechain_active : BOOLEAN,
                     compressor_ratio : Ratios,
                     compressor_attack_ms : {50},
                     compressor_release_ms : {5000},
                     auto_makeup_gain : {TRUE}]
  /\ num_channels \in 1..MaxChannels
  /\ latency = Pow2(parameters.fft_order)
  /\ compressor_settings_changed = TRUE
  /\ makeup_gain = NoMakeupGain
  /\ update_pending = FALSE
  /\ needs_swap = FALSE
  /\ active = 2
  /\ ps = [i \in 1..2 |->
             IF i = 2
             THEN BuildProcessData(EmptyProcessData, parameters.fft_order, num_channels)
             ELSE EmptyProcessData]
  /\ playing = TRUE
  /\ apc = "idle"
  /\ au = IdleAu
  /\ main_io = NoBuffer
  /\ sidechain_io = NoBuffer
  /\ t_in = 0
  /\ notified = [i \in 1..2 |-> FALSE]
  /\ stream_len = MaxAutomationSamples
  /\ fft_bin = NoBin
  /\ bpc = "idle"
  /\ bg = IdleBg
  /\ changes = 0

AutomationNext ==
  \/ StreamNext
  \/ \E v \in BOOLEAN : CompressorParamChanged("sidechain_active", v)
  \/ \E v \in Overlaps : CompressorParamChanged("windowing_overlap_times", v)

SpecAutomation == AutomationInit /\ [][AutomationNext]_vars

\* The processor with its scheduling: the host keeps calling the audio
\* callbacks and every started callback runs on; the message loop runs a
\* triggered updater, and a started rebuild runs on. One more change of a
\* parameter or of the state may come.
LiveInit ==
  /\ parameters = DefaultParameters
  /\ num_channels = DefaultChannels
  /\ latency = Pow2(DefaultOrder)
  /\ compressor_settings_changed = TRUE
  /\ makeup_gain = NoMakeupGain
  /\ update_pending = FALSE
  /\ needs_swap = FALSE
  /\ active = 1
  /\ ps = [i \in 1..2 |-> EmptyProcessData]
  /\ playing = FALSE
  /\ apc = "idle"
  /\ au = IdleAu
  /\ main_io = NoBuffer
  /\ sidechain_io = NoBuffer
  /\ t_in = 0
  /\ notified = [i \in 1..2 |-> FALSE]
  /\ stream_len = MaxLiveSamples
  /\ fft_bin = NoBin
  /\ bpc = "idle"
  /\ bg = IdleBg
  /\ changes = MaxChanges - 1

BackgroundSteps ==
  UpdaterRun \/ BuildBeginStep \/ BuildResizeStep \/ Publish \/ ReportLatency

SpecLive ==
  /\ LiveInit
  /\ [][Next]_vars
  /\ WF_vars(AudioNext)
  /\ WF_vars(BackgroundSteps)

\* The scaling of one bin of a transformed window, lines 390-405 of
\* processBlock's lambda: any bin, and any answer of the compressor.
BinInit ==
  /\ parameters = DefaultParameters
  /\ num_channels = DefaultChannels
  /\ latency = Pow2(DefaultOrder)
  /\ compressor_settings_changed = TRUE
  /\ makeup_gain = NoMakeupGain
  /\ update_pending = FALSE
  /\ needs_swap = FALSE
  /\ active = 1
  /\ ps = [i \in 1..2 |-> EmptyProcessData]
  /\ playing = FALSE
  /\ apc = "idle"
  /\ au = IdleAu
  /\ main_io = NoBuffer
  /\ sidechain_io = NoBuffer
  /\ t_in = 0
  /\ notified = [i \in 1..2 |-> FALSE]
  /\ stream_len = 0
  /\ bpc = "idle"
  /\ bg = IdleBg
  /\ changes = 0
  /\ fft_bin \in {[NoBin EXCEPT !.stage = "transformed", !.z = z] : z \in BinValues}

bin_frame ==
  <<parameters, num_channels, latency, compressor_settings_changed, makeup_gain,
    update_pending, needs_swap, active, ps, playing, apc, au, main_io,
    sidechain_io, t_in, stream_len, notified, bpc, bg, changes>>

\* magnitude = std::abs(fft_buffer[bin_idx]) and compressed_magnitude =
\* processSample(channel, magnitude), whatever the compressor answers
CompressBin(compressed_magnitude) ==
  /\ fft_bin.stage = "transformed"
  /\ fft_bin' = [fft_bin EXCEPT !.stage = "compressed",
                                !.magnitude = Magnitude(fft_bin.z),
                                !.compressed_magnitude = compressed_magnitude]
  /\ UNCHANGED bin_frame

\* compression_multiplier and fft_buffer[bin_idx] *= compression_multiplier
ScaleBin ==
  /\ fft_bin.stage = "compressed"
  /\ \E m \in {CompressionMultiplier(fft_bin.magnitude, fft_bin.compressed_magnitude)} :
       fft_bin' = [fft_bin EXCEPT !.stage = "scaled",
                                  !.compression_multiplier = m,
                                  !.out = Scaled(fft_bin.z, m)]
  /\ UNCHANGED bin_frame

BinNext ==
  \/ \E compressed_magnitude \in 0..MaxMagnitude : CompressBin(compressed_magnitude)
  \/ ScaleBin

SpecBin == BinInit /\ [][BinNext]_vars

\* ------------------------------------------------ a whole call in one step
\* the loop of do_stft run to its end: `left' iterations from `off'
RECURSIVE RunWindows(_, _, _, _, _, _, _, _, _, _)
RunWindows(pd, par, nch, bypassed, io, sio, num_samples, interval, off, left) ==
  IF left = 0 THEN [pd |-> pd, io |-> io]
  ELSE LET r == StftIteration(pd, par, nch, bypassed, io, sio, num_samples, interval, off)
       IN RunWindows(r.pd, par, nch, bypassed, r.io, sio, num_samples, interval,
                     r.sample_buffer_offset, left - 1)

\* do_stft on one host buffer: the alignment prefix, then the loop
RunStft(pd, par, nch, bypassed, io, sio, num_samples) ==
  LET r == StftPrefix(pd, par, io, sio, num_samples)
  IN RunWindows(r.pd, par, nch, bypassed, r.io, sio, num_samples,
                r.windowing_interval, r.sample_buffer_offset, r.windows_to_process)

\* a working set as the first processBlock finds it after prepareToPlay:
\* built, and configured by the update_compressors the set flag causes
FreshData(par, nch) ==
  UpdateCompressors(BuildProcessData(EmptyProcessData, par.fft_order, nch), par, nch)

\* the first num_samples of the host's stream handed over in a single call
OneBlock(par, nch, bypassed, num_samples) ==
  RunStft(FreshData(par, nch), par, nch, bypassed,
          [c \in 1..nch |-> [k \in 1..num_samples |-> {k}]],
          [c \in 1..nch |-> [k \in 1..num_samples |-> {-k}]], num_samples)

\* ------------------------------------------------------------- properties

\* C1: round-trip latency. With compression disabled, at the end of every
\* processBlock call on a freshly activated working set each host output
\* sample at stream position t carries contributions of input position
\* t - W only (tags are positions plus one, so nothing at all when t < W).
\* Stated for the overlap factors that divide W, where the hop is exact.
C1_RoundTripLatency ==
  (/\ apc = "end" /\ ~au.bypassed /\ parameters.compressor_ratio = RatioOff
   /\ ps[au.cur].fft_window_size % parameters.windowing_overlap_times = 0) =>
    \A c \in 1..num_channels : \A k \in 1..au.num_samples :
      \A x \in main_io[c][k] : x = t_in + k - ps[au.cur].fft_window_size

\* C2: block-size independence. However the stream was cut into processBlock
\* calls so far, the working set (rings, cursors, num_windows_processed, the
\* record of window-processor invocations) and the output of the call that
\* ends are those of handing the same stream over in one single call.
C2_BlockSizeIndependence ==
  (apc = "end" /\ ~au.bypassed) =>
    LET ref == OneBlock(parameters, num_channels, FALSE, t_in + au.num_samples)
    IN /\ ps[au.cur] = ref.pd
       /\ \A c \in 1..num_channels :
            main_io[c] = SubSeq(ref.io[c], t_in + 1, t_in + au.num_samples)

\* C3: bypassed latency. At the end of every processBlockBypassed call on a
\* freshly activated working set the host output sample at stream position t
\* is the input sample of position t - W, and silence when t < W.
C3_BypassedLatency ==
  (apc = "end" /\ au.bypassed) =>
    \A c \in 1..num_channels : \A k \in 1..au.num_samples :
      main_io[c][k] = IF t_in + k - ps[au.cur].fft_window_size > 0
                      THEN {t_in + k - ps[au.cur].fft_window_size}
                      ELSE Silence

\* C4, as claimed, at the moment the latency is reported: a latency reported
\* while a rebuilt working set waits for its swap is the window size of the
\* active working set, never that of the pending one.
C4_LatencyIsActiveWindowSize ==
  [][(ReportLatency /\ playing /\ needs_swap) =>
       latency' = ps[active].fft_window_size]_vars

\* no rebuild is requested, running, waiting to report or waiting for its swap
C4_Quiescent ==
  playing /\ bpc = "idle" /\ ~update_pending /\ ~needs_swap

\* C4, amended: whenever no rebuild is requested, running or waiting for its
\* swap, the reported latency is the window size of the active working set,
\* which is 1 << fft_order.
C4_LatencyWhenQuiescent ==
  C4_Quiescent => /\ latency = ps[active].fft_window_size
                  /\ latency = Pow2(parameters.fft_order)

\* a block has been processed with a changed window order in force
C4_Witness ==
  /\ C4_Quiescent
  /\ apc = "end"
  /\ latency # Pow2(DefaultOrder)
  /\ latency = ps[au.cur].fft_window_size

\* C5: a callback whose get() swapped in a working set of another window size
\* did not start while the reported latency was still the window size of the
\* working set it retired.
C5_LatencyReportedBeforeFirstBlock ==
  (/\ apc # "idle" /\ au.swapped
   /\ ps[au.cur].fft_window_size # au.retired_size) =>
     au.entry_latency # au.retired_size

\* C6: exclusive ownership. No step of the background context (updater,
\* state load, the steps of a rebuild) changes the active working set, nor,
\* while a callback is between its get() and its return, the working set
\* that callback holds.
C6_ExclusiveOwnership ==
  [][BackgroundNext =>
       /\ ps'[active] = ps[active]
       /\ apc # "idle" => ps'[au.cur] = ps[au.cur]]_vars

\* a rebuild has written the other working set in the middle of a callback
C6_Witness ==
  /\ apc = "loop"
  /\ bpc = "publish"
  /\ bg.target # au.cur
  /\ ps[bg.target].fft_window_size # ps[au.cur].fft_window_size

\* C7: within one callback every step (update_compressors, the prefix,
\* every window) works on the working set the get() at its start returned,
\* and that working set stays the active one until the callback returns.
C7_OneWorkingSetPerBlock ==
  apc # "idle" => /\ au.used \subseteq {au.cur}
                  /\ active = au.cur

\* a callback has processed a window and reached its end on the old working
\* set although a rebuild with another window size was published meanwhile
C7_Witness ==
  /\ apc = "end"
  /\ au.window_idx > 0
  /\ au.used = {au.cur}
  /\ needs_swap
  /\ ps[Inactive].fft_window_size # ps[au.cur].fft_window_size

C12_HopDividesWindow ==
  playing =>
    /\ \E k \in 0..MaxOrder : ps[active].fft_window_size = Pow2(k)
    /\ WindowingInterval(ps[active], parameters) > 0
    /\ ps[active].fft_window_size % WindowingInterval(ps[active], parameters) = 0

\* ------------------------------------------------------------------- C13
\* the working set d as the copy step of the current do_stft step finds it:
\* in the prefix the set as it is, in a loop iteration the set after
\* process_fn
C13_BeforeCopy(d) ==
  IF apc = "stft" THEN ps[d]
  ELSE IF au.bypassed
       THEN BypassWindow(ps[d], parameters.windowing_overlap_times, num_channels)
       ELSE CompressWindow(ps[d], parameters.sidechain_active, num_channels)

\* the step of do_stft that is about to be taken copies as C13 demands
C13_GatedCopy ==
  StftStep =>
    \E d \in {au.cur} : \E before \in {C13_BeforeCopy(d)} :
      LET off == IF apc = "stft" THEN 0 ELSE au.sample_buffer_offset
          cnt == au'.sample_buffer_offset - off
          gate == ps'[d].num_windows_processed >= parameters.windowing_overlap_times
      IN  \A c \in 1..num_channels :
            LET ring == before.output_ring_buffers[c]
                after == ps'[d].output_ring_buffers[c]
            IN  IF gate
                THEN /\ \A k \in 1..cnt :
                          /\ main_io'[c][off + k] = ring.buf[Slot(ring, k - 1)]
                          /\ after.buf[Slot(ring, k - 1)] = Silence
                     /\ after.pos = (ring.pos + cnt) % Capacity(ring)
                ELSE /\ \A k \in 1..cnt : main_io'[c][off + k] = Silence
                     /\ after = ring

\* C13: output gating. In the alignment prefix and in every iteration of
\* do_stft, the host output range of the step is filled from the output ring
\* (the samples at the cursor, which are cleared, the cursor advancing by the
\* length of the range) exactly when num_windows_processed >= the overlap
\* factor at that moment; otherwise the range is silence and the copy leaves
\* the output ring and its cursor as they were.
C13_OutputGating == [][C13_GatedCopy]_vars

\* a block has been through iterations with the gate closed and with the
\* gate open: its output begins with forced silence and goes on with
\* processed samples from the ring
C13_Witness ==
  /\ apc = "end"
  /\ ~au.bypassed
  /\ ps[au.cur].num_windows_processed >= parameters.windowing_overlap_times
  /\ au.window_idx >= 2
  /\ main_io[1][1] = Silence
  /\ main_io[1][au.num_samples] # Silence

\* ------------------------------------------------------------------- C14
\* the working set a stream runs on, the process_fn invocations on it so far
\* (one log entry per invocation) and its hop
C14_Invocations == Len(ps[active].log)

C14_Hop == WindowingInterval(ps[active], parameters)

C14_HopDivides ==
  ps[active].fft_window_size % parameters.windowing_overlap_times = 0

\* C14, as stated: between two blocks, after T input samples on a working
\* set, process_fn has been invoked floor(T / hop) times, once per completed
\* hop (checked where the hop divides the window size).
C14_OncePerCompletedHop ==
  (apc = "idle" /\ C14_HopDivides) => C14_Invocations = t_in \div C14_Hop

\* C14, amended: process_fn is invoked at the beginning of every hop, not at
\* its end. Where the hop divides the window size: an iteration of the loop
\* (which begins with the invocation) starts exactly when the samples
\* appended so far are hop times the invocations so far, the first time on
\* the still silent working set; and after T input samples the invocations
\* number ceil(T / hop).
C14_OncePerBegunHop ==
  C14_HopDivides =>
    /\ apc = "loop" =>
         t_in + au.sample_buffer_offset = Len(ps[au.cur].log) * au.windowing_interval
    /\ apc = "idle" => C14_Invocations = CeilDiv(t_in, C14_Hop)

\* a block ended in the middle of a hop: the window of that hop has been
\* processed already
C14_Witness ==
  /\ apc = "idle"
  /\ C14_HopDivides
  /\ t_in > C14_Hop
  /\ t_in % C14_Hop # 0
  /\ C14_Invocations = (t_in \div C14_Hop) + 1

\* ------------------------------------------------------------------- C15
\* the ring after is the ring before with the samples src[off+1 .. off+cnt]
\* appended
C15_Appended(before, after, src, off, cnt) ==
  /\ after.pos = (before.pos + cnt) % Capacity(before)
  /\ \A k \in 1..cnt : after.buf[Slot(before, k - 1)] = src[off + k]
  /\ \A j \in 1..Capacity(before) :
       (\A k \in 1..cnt : Slot(before, k - 1) # j) => after.buf[j] = before.buf[j]

\* the step of do_stft that is about to be taken keeps the sample lock
C15_LockedCopy ==
  StftStep =>
    \E d \in {au.cur} :
      LET off == IF apc = "stft" THEN 0 ELSE au.sample_buffer_offset
          cnt == au'.sample_buffer_offset - off
      IN  /\ \A c \in 1..num_channels :
               \* the input ring takes the host range [off, off + cnt)
               /\ C15_Appended(ps[d].input_ring_buffers[c],
                               ps'[d].input_ring_buffers[c], main_io[c], off, cnt)
               \* the host output is written in that range and nowhere else
               /\ \A k \in 1..au.num_samples :
                    (k <= off \/ k > off + cnt) => main_io'[c][k] = main_io[c][k]
               \* the sidechain ring takes the same range of the sidechain bus
               /\ IF parameters.sidechain_active
                  THEN C15_Appended(ps[d].sidechain_ring_buffers[c],
                                    ps'[d].sidechain_ring_buffers[c],
                                    sidechain_io[c], off, cnt)
                  ELSE ps'[d].sidechain_ring_buffers[c] = ps[d].sidechain_ring_buffers[c]
               \* the cursors of all channels' input rings stay equal
               /\ ps'[d].input_ring_buffers[c].pos = ps'[d].input_ring_buffers[1].pos
          /\ cnt >= 0 /\ off + cnt <= au.num_samples

\* C15: sample lock. In the alignment prefix and in every hop iteration of
\* do_stft, for every processed channel, the input ring append, the host
\* output write and, when the sidechain is active, the sidechain ring append
\* cover the same host range [offset, offset + count), and the input ring
\* cursors of all channels are equal after the step.
C15_SampleLock == [][C15_LockedCopy]_vars

\* the sample a ring took last
C15_Last(r) == r.buf[((r.pos + Capacity(r) - 1) % Capacity(r)) + 1]

\* a block of two channels with the sidechain active is past its first
\* range: both rings of the second channel end with the sample of the same
\* host position
C15_Witness ==
  /\ apc = "loop"
  /\ num_channels = 2
  /\ parameters.sidechain_active
  /\ au.sample_buffer_offset > 0
  /\ t_in > 0
  /\ C15_Last(ps[au.cur].input_ring_buffers[2]) = {t_in + au.sample_buffer_offset}
  /\ C15_Last(ps[au.cur].sidechain_ring_buffers[2]) = {-(t_in + au.sample_buffer_offset)}

\* ------------------------------------------------------------------- C16
\* A valuation of the symbolic magnitudes: the magnitude of a bin of a
\* window is a number that depends on the bin and on the samples of the
\* window, not on the channel that carries them.
C16_Scales == 1..3

C16_Magnitude(m, scale) == scale * Cardinality(m.src) + m.bin

RECURSIVE C16_Sum(_, _)
C16_Sum(ms, scale) ==
  IF ms = {} THEN 0
  ELSE LET m == CHOOSE x \in ms : TRUE
       IN  C16_Magnitude(m, scale) + C16_Sum(ms \ {m}, scale)

\* the number given to setThreshold: accumulated sum / input_channels
C16_ThresholdValue(th, scale) == C16_Sum(th.sum, scale) \div th.div

\* the iteration of a compressing block that is about to run, with the
\* sidechain active, sets every threshold as C16 demands
C16_MeanThreshold ==
  (StftStep /\ apc = "loop" /\ ~au.bypassed /\ parameters.sidechain_active) =>
    \E d \in {au.cur} :
      \A i \in 1..Len(ps[d].spectral_compressors) :
        LET th == ps'[d].spectral_compressors[i].threshold
            window(c) == CopyLastNTo(ps[d].sidechain_ring_buffers[c],
                                     ps[d].fft_window_size)
        IN  \* one magnitude per input channel, of bin i of that channel's
            \* sidechain window, divided by the number of input channels
            /\ th.kind = "sidechain"
            /\ th.bin = i
            /\ th.div = num_channels
            /\ th.sum = {[ch |-> c, bin |-> i, src |-> Tags(window(c))] :
                           c \in 1..num_channels}
            \* the accumulator is zero again
            /\ ps'[d].spectral_compressor_sidechain_thresholds[i] = {}
            \* with the same sidechain on every channel the threshold is the
            \* magnitude of one channel, whatever the number of channels
            /\ (\A c \in 1..num_channels : window(c) = window(1)) =>
                 \A scale \in C16_Scales :
                   C16_ThresholdValue(th, scale) =
                     C16_Magnitude([ch |-> 1, bin |-> i, src |-> Tags(window(1))], scale)

\* C16: with the sidechain active, the threshold a window sets on compressor
\* i (bin i + 1, counting compressors from 0) is the arithmetic mean over the
\* input channels of the magnitudes of that bin in the channels' sidechain
\* windows; with the same magnitudes on every channel it does not depend on
\* the number of channels.
C16_SidechainThresholdIsMean == [][C16_MeanThreshold]_vars

\* a window of a two-channel stream has set thresholds from a sidechain
\* window that holds sidechain samples
C16_Witness ==
  /\ apc \in {"loop", "end"}
  /\ ~au.bypassed
  /\ parameters.sidechain_active
  /\ num_channels = 2
  /\ au.window_idx > 0
  /\ \E i \in 1..Len(ps[au.cur].spectral_compressors) :
       LET th == ps[au.cur].spectral_compressors[i].threshold
       IN  /\ th.kind = "sidechain"
           /\ th.div = 2
           /\ Cardinality(th.sum) = 2
           /\ \A m \in th.sum : m.src # {}

\* ------------------------------------------------------------------- C17
\* the processSample calls compressor i of working set x has taken for
\* channel c, before and after the step
C17_Stepped(x, i, c) == ps[x].spectral_compressors[i].stepped[c]

C17_SteppedNext(x, i, c) == ps'[x].spectral_compressors[i].stepped[c]

\* a non-bypassed invocation of the window processor steps each of the
\* fft_window_size / 2 compressors once for every channel; no other step
\* steps a compressor that stays in its working set
C17_SteppedByWindow ==
  \A x \in 1..2 :
    IF StftStep /\ apc = "loop" /\ ~au.bypassed /\ x = au.cur
    THEN /\ Len(ps[x].spectral_compressors) = ps[x].fft_window_size \div 2
         /\ Len(ps'[x].spectral_compressors) = Len(ps[x].spectral_compressors)
         /\ \A i \in 1..Len(ps[x].spectral_compressors) :
              \A c \in 1..MaxChannels :
                C17_SteppedNext(x, i, c) =
                  C17_Stepped(x, i, c) + (IF c <= num_channels THEN 1 ELSE 0)
    ELSE \A i \in 1..Min(Len(ps[x].spectral_compressors), Len(ps'[x].spectral_compressors)) :
           \A c \in 1..MaxChannels : C17_SteppedNext(x, i, c) = C17_Stepped(x, i, c)

\* after K invocations on a freshly built working set every compressor has
\* been stepped K times on each channel
C17_SteppedAtHopRate ==
  \A i \in 1..Len(ps[active].spectral_compressors) :
    \A c \in 1..num_channels : C17_Stepped(active, i, c) = Len(ps[active].log)

\* C17: on every non-bypassed invocation of the window processor each of
\* the window_size / 2 compressors is stepped (processSample) exactly once
\* per channel, and never outside an invocation; so after K invocations with
\* C channels every compressor has been stepped K times on each channel (the
\* hop rate, not the sample rate).
C17_SteppedOncePerWindow ==
  [][C17_SteppedByWindow]_vars /\ []C17_SteppedAtHopRate

\* two channels, several windows over more samples than windows: the
\* compressors were stepped once per window, not once per sample
C17_Witness ==
  /\ apc = "idle"
  /\ num_channels = 2
  /\ Len(ps[active].log) >= 3
  /\ t_in > Len(ps[active].log)
  /\ \A i \in 1..Len(ps[active].spectral_compressors) :
       /\ C17_Stepped(active, i, 1) = Len(ps[active].log)
       /\ C17_Stepped(active, i, 2) = Len(ps[active].log)

\* ------------------------------------------------------------------- C18
\* the compare-and-swap that is about to run update_compressors on a working
\* set that has processed windows since it was built keeps the envelope of
\* every compressor that has one (that has been prepared before)
C18_EnvelopeKept ==
  (/\ apc = "cas" /\ apc' = "stft"
   /\ compressor_settings_changed
   /\ ps[au.cur].num_windows_processed > 0) =>
    \A i \in 1..Len(ps[au.cur].spectral_compressors) :
      ps[au.cur].spectral_compressors[i].env # <<>> =>
        ps'[au.cur].spectral_compressors[i].env = ps[au.cur].spectral_compressors[i].env

\* C18: update_compressors on the active working set, run because a setting
\* changed and without a rebuild, leaves the envelope follower state of
\* every compressor unchanged.
C18_UpdateKeepsEnvelope == [][C18_EnvelopeKept]_vars

\* ------------------------------------------------------------------- C19
\* C19: whenever a compressing block is about to process a window, the
\* sample rate update_compressors gave to every compressor, sample_rate *
\* overlap / fft_window_size (kept as the pair <<overlap, fft_window_size>>),
\* times the hop do_stft uses (integer division) is the sample rate:
\* overlap * hop = fft_window_size.
C19_RateMatchesHop ==
  (apc = "loop" /\ ~au.bypassed) =>
    \A i \in 1..Len(ps[au.cur].spectral_compressors) :
      ps[au.cur].spectral_compressors[i].rate[1] * au.windowing_interval =
        ps[au.cur].spectral_compressors[i].rate[2]

\* ------------------------------------------------------------------- C20
\* C20: a bin whose magnitude is exactly zero gets the multiplier 1.0,
\* nothing is divided by the magnitude and both parts of the bin are left
\* as they are; a bin with a non-zero magnitude gets the multiplier
\* compressed magnitude / magnitude, applied to both parts.
C20_ZeroMagnitudePolicy ==
  fft_bin.stage = "scaled" =>
    LET m == fft_bin.compression_multiplier
    IN  /\ m.den # 0
        /\ fft_bin.out.re.den # 0 /\ fft_bin.out.im.den # 0
        /\ IF fft_bin.magnitude = 0
           THEN /\ m = One
                /\ fft_bin.out.re.num = fft_bin.z.re * fft_bin.out.re.den
                /\ fft_bin.out.im.num = fft_bin.z.im * fft_bin.out.im.den
           ELSE /\ m.num = fft_bin.compressed_magnitude
                /\ m.den = fft_bin.magnitude
                /\ fft_bin.out.re.num * fft_bin.magnitude =
                     fft_bin.z.re * fft_bin.compressed_magnitude * fft_bin.out.re.den
                /\ fft_bin.out.im.num * fft_bin.magnitude =
                     fft_bin.z.im * fft_bin.compressed_magnitude * fft_bin.out.im.den

\* a bin of magnitude zero has been scaled although the compressor answered
\* with a magnitude above zero
C20_Witness ==
  /\ fft_bin.stage = "scaled"
  /\ fft_bin.magnitude = 0
  /\ fft_bin.compressed_magnitude > 0
  /\ fft_bin.compression_multiplier = One

\* ------------------------------------------------------------------- C21
\* the working sets that are built: the active one of a prepared processor
\* and a rebuilt one that waits for its swap
C21_Built == {x \in 1..2 : playing /\ (x = active \/ (needs_swap /\ x = Inactive))}

C22_Requests(d) ==
  LET pd == ps[d]
      off == IF apc = "stft" THEN 0 ELSE au.sample_buffer_offset
      cnt == au'.sample_buffer_offset - off
      rings(rs) == {Capacity(rs[c]) : c \in 1..num_channels}
      copies == (rings(pd.input_ring_buffers) \cup rings(pd.output_ring_buffers)
                   \cup rings(pd.sidechain_ring_buffers)) \X {cnt}
      window == IF apc = "stft" THEN {}
                ELSE IF au.bypassed
                THEN (rings(pd.input_ring_buffers) \cup rings(pd.output_ring_buffers))
                       \X {WindowingInterval(pd, parameters)}
                ELSE (rings(pd.input_ring_buffers) \cup rings(pd.output_ring_buffers)
                        \cup rings(pd.sidechain_ring_buffers)) \X {pd.fft_window_size}
  IN  copies \cup window

\* the step of do_stft that is about to be taken stays within the rings
C22_WithinCapacity ==
  StftStep =>
    \E d \in {au.cur} :
      LET hop == au'.windowing_interval
          cnt == au'.sample_buffer_offset -
                   (IF apc = "stft" THEN 0 ELSE au.sample_buffer_offset)
      IN  /\ 1 <= hop /\ hop <= ps[d].fft_window_size
          /\ 0 <= cnt /\ cnt <= hop
          /\ Len(ps[d].input_ring_buffers) = num_channels
          /\ Len(ps[d].output_ring_buffers) = num_channels
          /\ Len(ps[d].sidechain_ring_buffers) = num_channels
          /\ \A q \in C22_Requests(d) :
               /\ q[1] = ps[d].fft_window_size
               /\ q[2] <= q[1]

\* C22: no ring operation of the driver or of the window processor requests
\* more samples than the ring holds: every append and consume count is at
\* most the hop, the hop is at least 1 and at most fft_window_size, every
\* snapshot and overlap-add count is at most fft_window_size, and every ring
\* has the capacity fft_window_size, also for blocks longer than the window.
C22_RingRequestsFit == [][C22_WithinCapacity]_vars

\* a block longer than the window is in its loop and has copied a full hop
C22_Witness ==
  /\ apc = "loop"
  /\ au.num_samples > ps[au.cur].fft_window_size
  /\ au.window_idx >= 1
  /\ au.sample_buffer_offset >= au.windowing_interval
  /\ au.windowing_interval > 1

\* ------------------------------------------------------------------- C23
\* a working set that holds nothing
C23_TornDown(pd) ==
  /\ pd.spectral_compressors = <<>>
  /\ pd.spectral_compressor_sidechain_thresholds = <<>>
  /\ pd.input_ring_buffers = <<>>
  /\ pd.output_ring_buffers = <<>>
  /\ pd.sidechain_ring_buffers = <<>>
  /\ pd.fft_scratch_buffer = 0
  /\ pd.fft = 0
  /\ pd.windowing_function = 0

\* a working set fully built for the window order `order'
C23_FullyBuilt(pd, order) ==
  /\ pd.fft_window_size = Pow2(order)
  /\ pd.num_windows_processed = 0
  /\ pd.windowing_function = Pow2(order)
  /\ pd.fft = order
  /\ pd.fft_scratch_buffer = 2 * Pow2(order)
  /\ Len(pd.spectral_compressors) = Pow2(order) \div 2
  /\ Len(pd.spectral_compressor_sidechain_thresholds) = Pow2(order) \div 2
  /\ \A rs \in {pd.input_ring_buffers, pd.output_ring_buffers, pd.sidechain_ring_buffers} :
       /\ Len(rs) = num_channels
       /\ \A c \in 1..num_channels : rs[c] = RingResize(Pow2(order))

\* releaseResources leaves both working sets torn down; prepareToPlay makes
\* a fully built one the active one; a block only starts on a prepared
\* processor
C23_StopAndStart ==
  /\ (playing /\ ~playing') => \A x \in 1..2 : C23_TornDown(ps'[x])
  /\ (~playing /\ playing') =>
       /\ C23_FullyBuilt(ps'[active'], parameters.fft_order)
       /\ ~needs_swap'
  /\ (apc = "idle" /\ apc' # "idle") => (playing /\ ~C23_TornDown(ps[au'.cur]))

\* C23: immediately after releaseResources both working sets hold no
\* compressors, accumulators, ring buffers, scratch buffer, transform plan or
\* window table; a following prepareToPlay makes a fully built working set
\* the current one before any block is processed.
C23_TeardownAndRestart == [][C23_StopAndStart]_vars

\* after a stop and a restart a block is processing a window on the rebuilt
\* working set, while the other one is still torn down
C23_Witness ==
  /\ playing
  /\ apc = "loop"
  /\ bpc = "idle"
  /\ ps[Inactive].fft_window_size > 0
  /\ C23_TornDown(ps[Inactive])
  /\ ~C23_TornDown(ps[au.cur])

C24_SetAndConsumed ==
  \* it is cleared by the audio thread's compare-and-swap only, which runs
  \* update_compressors on the held working set in the same step
  /\ (compressor_settings_changed /\ ~compressor_settings_changed') =>
       /\ apc = "cas" /\ apc' = "stft"
       /\ au'.updated /\ ~au.updated
       /\ ps'[au.cur] = UpdateCompressors(ps[au.cur], parameters, num_channels)
  \* it is set by the parameter listener and by the rebuild only
  /\ (~compressor_settings_changed /\ compressor_settings_changed') =>
       \/ parameters' # parameters
       \/ bpc = "resize" /\ bpc' = "publish"
       \/ ~playing /\ playing'
  \* the producers never clear it
  /\ (parameters' # parameters \/ bpc' # bpc \/ playing' # playing) =>
       (compressor_settings_changed => compressor_settings_changed')
  \* update_compressors runs in the compare-and-swap step only
  /\ (au'.updated /\ ~au.updated) => (apc = "cas" /\ compressor_settings_changed)

C25_ConfiguredBeforeFirstWindow ==
  (apc = "loop" /\ ~au.bypassed) => ps[au.cur].configured

\* ------------------------------------------------------------------- C26
\* the step of do_stft that is about to be taken, on a freshly activated
\* working set whose hop divides the window size, takes its host range from
\* the output ring exactly when the range lies at stream position
\* fft_window_size or later
C26_RingOutputFromWindowSize ==
  (/\ StftStep
   /\ ps[au.cur].fft_window_size % parameters.windowing_overlap_times = 0
   /\ au'.sample_buffer_offset >
        (IF apc = "stft" THEN 0 ELSE au.sample_buffer_offset)) =>
    LET off == IF apc = "stft" THEN 0 ELSE au.sample_buffer_offset
    IN  OutputGate(ps'[au.cur], parameters) <=>
          (t_in + off >= ps[au.cur].fft_window_size)

\* C26: on a freshly activated working set nothing is copied from the
\* output ring to the host until a full buffer has been processed: the first
\* host sample taken from the output ring, rather than forced to silence, is
\* the one at stream position fft_window_size, for every overlap factor.
C26_FirstRingOutputAtWindowSize == [][C26_RingOutputFromWindowSize]_vars

\* ------------------------------------------------------------------- C27
\* C27: alignment. Whenever do_stft is about to invoke the window processor
\* (after the prefix when the block is not exhausted, and before the second
\* and every later iteration of a block, also after the cursor has wrapped
\* around the ring), the cursor of the first input ring is a multiple of the
\* hop.
C27_AlignedAtInvocation ==
  apc = "loop" =>
    ps[au.cur].input_ring_buffers[1].pos % au.windowing_interval = 0

\* ------------------------------------------------------------------- C28
\* the ranges of the steps of do_stft follow one another: a step starts
\* where the one before ended and ends within the block
C28_Contiguous ==
  StftStep =>
    /\ (apc = "stft" => au.sample_buffer_offset = 0)
    /\ au'.sample_buffer_offset >= au.sample_buffer_offset
    /\ au'.sample_buffer_offset <= au.num_samples
    /\ (apc = "loop" => au'.sample_buffer_offset > au.sample_buffer_offset)

\* at the end of do_stft the whole block has been handled: the offset is the
\* block length, the input ring ends with the block's input samples in
\* their order (each host sample read once), and no host sample still holds
\* its input (each was overwritten with output)
C28_WholeBlock ==
  apc = "end" =>
    /\ au.sample_buffer_offset = au.num_samples
    /\ \A c \in 1..num_channels :
         LET ring == ps[au.cur].input_ring_buffers[c]
             m == Min(au.num_samples, Capacity(ring))
         IN  /\ ring.pos = (t_in + au.num_samples) % Capacity(ring)
             /\ \A j \in 1..m :
                  CopyLastNTo(ring, m)[j] = {t_in + au.num_samples - m + j}
             /\ \A k \in 1..au.num_samples : (t_in + k) \notin main_io[c][k]

\* C28: the assertion at the end of do_stft holds for every block length,
\* cursor position and hop: sample_buffer_offset equals the block length on
\* exit, the ranges of the iterations are disjoint and contiguous, and every
\* host sample of the block is read into the input ring once and overwritten
\* with output once.
C28_AssertionHolds == [][C28_Contiguous]_vars /\ []C28_WholeBlock

\* a block that began in the middle of a hop and went through the prefix
\* and two iterations has ended
C28_Witness ==
  /\ apc = "end"
  /\ t_in % au.windowing_interval # 0
  /\ au.window_idx >= 2
  /\ au.num_samples > au.windowing_interval
  /\ au.sample_buffer_offset = au.num_samples

\* ------------------------------------------------------------------- C29
\* after the step of do_stft that is about to be taken, the input ring of
\* every channel holds the host's input samples of the step's range, while
\* the host buffer holds them no more
C29_ReadBeforeOverwritten ==
  StftStep =>
    \E d \in {au.cur} :
      LET off == IF apc = "stft" THEN 0 ELSE au.sample_buffer_offset
          cnt == au'.sample_buffer_offset - off
      IN  \A c \in 1..num_channels : \A k \in 1..cnt :
            /\ ps'[d].input_ring_buffers[c].buf[Slot(ps[d].input_ring_buffers[c], k - 1)]
                 = {t_in + off + k}
            /\ main_io'[c][off + k] # {t_in + off + k}

\* C29: in-place processing order. In every iteration and for every
\* channel the host samples of the range are appended to the input ring
\* before that range of the host buffer is overwritten with output or
\* silence: no input sample is lost by being overwritten before it is read.
C29_InputReadBeforeOutputWritten == [][C29_ReadBeforeOverwritten]_vars

\* a block has ended whose last sample was overwritten with processed
\* output from the ring, and the input ring holds that sample's input
C29_Witness ==
  /\ apc = "end"
  /\ au.num_samples > 0
  /\ main_io[1][au.num_samples] # Silence
  /\ C15_Last(ps[au.cur].input_ring_buffers[1]) = {t_in + au.num_samples}

\* ------------------------------------------------------------------- C30
\* the step of do_stft that is about to be taken, when it copies from the
\* output ring: the host gets the slots at the cursor, exactly these slots
\* are zeroed and every other slot of the ring is left as it is
C30_CopyOutClears ==
  StftStep =>
    \E d \in {au.cur} : \E before \in {C13_BeforeCopy(d)} :
      LET off == IF apc = "stft" THEN 0 ELSE au.sample_buffer_offset
          cnt == au'.sample_buffer_offset - off
      IN  ps'[d].num_windows_processed >= parameters.windowing_overlap_times =>
            \A c \in 1..num_channels :
              LET ring == before.output_ring_buffers[c]
                  read == {Slot(ring, k - 1) : k \in 1..cnt}
              IN  \A j \in 1..Capacity(ring) :
                    ps'[d].output_ring_buffers[c].buf[j] =
                      IF j \in read THEN Silence ELSE ring.buf[j]

\* no sample the host gets holds a contribution of a window that was
\* processed a whole turn of the output ring or more before: a window
\* processed at stream position q holds the inputs after q - W, so an
\* output sample at position p holds inputs after p - 2 * W only
C30_NoStaleOutput ==
  apc = "end" =>
    \A c \in 1..num_channels : \A k \in 1..au.num_samples :
      \A x \in main_io[c][k] :
        (t_in + k) - x < 2 * ps[au.cur].fft_window_size

\* C30: every copy-out from the output ring to the host clears the slots it
\* read, so each overlap-add contribution deposited in the output ring is
\* emitted to the host at most once and never again after the cursor has
\* wrapped.
C30_EmittedAtMostOnce == [][C30_CopyOutClears]_vars /\ []C30_NoStaleOutput

\* the output cursor has gone round the ring at least once while copying
\* out, and the block that ends got processed samples from it
C30_Witness ==
  /\ apc = "end"
  /\ ~au.bypassed
  /\ t_in + au.num_samples >= 3 * ps[au.cur].fft_window_size
  /\ main_io[1][au.num_samples] # Silence

\* ------------------------------------------------------------------- C31
\* every accumulator of both working sets is zero
C31_AccumulatorsZero ==
  \A d \in 1..2 :
    \A i \in 1..Len(ps[d].spectral_compressor_sidechain_thresholds) :
      ps[d].spectral_compressor_sidechain_thresholds[i] = {}

\* the compressing window processor that is about to run with sidechaining
\* active sets, per bin, a threshold made of the magnitudes of this window's
\* sidechain snapshots, one per channel, and of nothing else
C31_ThresholdOfThisWindow ==
  (StftStep /\ apc = "loop" /\ ~au.bypassed /\ parameters.sidechain_active) =>
    \E d \in {au.cur} :
      \A i \in 1..Len(ps[d].spectral_compressors) :
        ps'[d].spectral_compressors[i].threshold.sum =
          {SidechainMagnitudes(ps[d], c)[i] : c \in 1..num_channels}

\* C31: the per-bin sidechain accumulator is all zeros before and after
\* every window-processor invocation on every working set (after a rebuild,
\* after a resize to another window size, with sidechaining active or not),
\* so a threshold never includes magnitudes accumulated during an earlier
\* window.
C31_AccumulatorReset == []C31_AccumulatorsZero /\ [][C31_ThresholdOfThisWindow]_vars

\* a block has ended on a working set whose compressors got their thresholds
\* from a sidechain window: the accumulators were used and are zero again
C31_Witness ==
  /\ apc = "end"
  /\ ~au.bypassed
  /\ Len(ps[au.cur].spectral_compressors) > 0
  /\ ps[au.cur].spectral_compressors[1].threshold.kind = "sidechain"
  /\ ps[au.cur].spectral_compressors[1].threshold.sum # {}
  /\ ps[au.cur].spectral_compressor_sidechain_thresholds[1] = {}

\* ------------------------------------------------------------------- C32
\* a step that is prepareToPlay ends with the object it built as the
\* current one, nothing pending, and that object built for the window order
C32_PreparedIsCurrent ==
  (~playing /\ playing') =>
    /\ ~needs_swap'
    /\ active' = Inactive
    /\ ps'[active'].fft_window_size = Pow2(parameters.fft_order)
    /\ ps'[active'].num_windows_processed = 0
    /\ \A rings \in {ps'[active'].input_ring_buffers, ps'[active'].output_ring_buffers,
                     ps'[active'].sidechain_ring_buffers} :
         /\ Len(rings) = num_channels
         /\ \A c \in 1..Len(rings) : Capacity(rings[c]) = ps'[active'].fft_window_size

\* a step that begins a rebuild while the processor is prepared leaves the
\* current object as it is
C32_RebuildsTheOther ==
  (playing /\ bpc = "begin" /\ bpc' = "resize") =>
    /\ active' = active
    /\ ps'[active] = ps[active]
    /\ bg'.target # active

\* C32: after prepareToPlay returns, the working set just built is already
\* current and no swap is pending: its fft_window_size is 1 << fft_order as
\* read during the build, its num_windows_processed is 0, its rings have
\* capacity fft_window_size; a rebuild triggered by a parameter change
\* before the first processing cycle modifies the other working set.
C32_PreparedBeforeFirstCycle ==
  [][C32_PreparedIsCurrent]_vars /\ [][C32_RebuildsTheOther]_vars

\* no block has been processed since prepareToPlay, and a rebuild for
\* another window order is in progress on the other working set
C32_Witness ==
  /\ playing
  /\ apc = "idle"
  /\ t_in = 0
  /\ ~needs_swap
  /\ bpc = "resize"
  /\ bg.target # active
  /\ ps[active].fft_window_size > 0
  /\ ps[active].num_windows_processed = 0
  /\ ps[active].log = <<>>
  /\ ps[bg.target].fft_window_size # ps[active].fft_window_size

\* ------------------------------------------------------------------- C33
\* the compressing window processor is about to be invoked with
\* sidechaining active: every channel's sidechain ring cursor is at its
\* input ring cursor
C33_CursorsLocked ==
  (StftStep /\ apc = "loop" /\ ~au.bypassed /\ parameters.sidechain_active) =>
    \A c \in 1..num_channels :
      ps[au.cur].sidechain_ring_buffers[c].pos = ps[au.cur].input_ring_buffers[c].pos

\* C33: at every window-processor invocation with sidechain active, each
\* channel's sidechain ring cursor equals that channel's input ring cursor,
\* so the sidechain window analysed covers the same sample range as the
\* input window, also after sidechaining was switched off and on again in
\* the middle of a stream.
C33_SidechainSampleLocked == [][C33_CursorsLocked]_vars

\* ------------------------------------------------------------------- C34
\* C34: every published working set is internally consistent even if the
\* window-order parameter changes while it is being built: the transform
\* plan's order is log2(fft_window_size), the scratch buffer has length
\* 2 * fft_window_size, there are fft_window_size / 2 compressors and every
\* ring has capacity fft_window_size.
C34_PublishedConsistent ==
  \A x \in C21_Built :
    /\ Pow2(ps[x].fft) = ps[x].fft_window_size
    /\ ps[x].fft_scratch_buffer = 2 * ps[x].fft_window_size
    /\ Len(ps[x].spectral_compressors) = ps[x].fft_window_size \div 2
    /\ \A rings \in {ps[x].input_ring_buffers, ps[x].output_ring_buffers,
                     ps[x].sidechain_ring_buffers} :
         \A c \in 1..Len(rings) : Capacity(rings[c]) = ps[x].fft_window_size

\* the same without the transform plan
C34_SizesConsistent ==
  \A x \in C21_Built :
    /\ ps[x].fft_scratch_buffer = 2 * ps[x].fft_window_size
    /\ Len(ps[x].spectral_compressors) = ps[x].fft_window_size \div 2
    /\ \A rings \in {ps[x].input_ring_buffers, ps[x].output_ring_buffers,
                     ps[x].sidechain_ring_buffers} :
         \A c \in 1..Len(rings) : Capacity(rings[c]) = ps[x].fft_window_size

\* ------------------------------------------------------------------- C35
\* the step of do_stft that is about to be taken on a working set from
\* which output ring samples have gone to the host before copies from the
\* output ring again: its gate is open and the output cursors advance
C35_StaysOpen ==
  (StftStep /\ ps[au.cur].emitted) =>
    \E d \in {au.cur} :
      LET off == IF apc = "stft" THEN 0 ELSE au.sample_buffer_offset
          cnt == au'.sample_buffer_offset - off
      IN  cnt > 0 =>
            /\ ps'[d].num_windows_processed >= parameters.windowing_overlap_times
            /\ \A c \in 1..num_channels :
                 ps'[d].output_ring_buffers[c].pos =
                   (ps[d].output_ring_buffers[c].pos + cnt) % ps[d].fft_window_size

\* C35: output gating is monotone per working set. Once output ring samples
\* have started to be copied to the host on a working set, the driver never
\* falls back to forced silence with a frozen output cursor on that working
\* set, whatever changes are made to the overlap factor while streaming.
C35_GateMonotone == [][C35_StaysOpen]_vars

====
